---- MODULE Spec2Model ----
(***************************************************************************)
(* Model of the UTXO transaction circuit of VeriZexe                        *)
(* (src/src/circuit/utxo.rs).  A transaction is assembled (inputs, then     *)
(* outputs bound to the first nullifier, then the public input derived      *)
(* from the witness), DPCUtxoCircuit::build emits its constraints block     *)
(* after block in one call, and the finalized circuit is checked for        *)
(* satisfiability.  A variable of the constraint system is represented by   *)
(* the value the builder assigns to it; a gate by its name, the index of    *)
(* the record it belongs to and whether that assignment satisfies it.       *)
(***************************************************************************)
EXTENDS Integers, Sequences, FiniteSets, TLC

(* ---------------- bounds of the model ---------------- *)

\* order of the inner scalar field F (and of the embedded group G)
P == 5
\* largest number of records on each side (fee slot included)
MaxN == 2
\* depth of the accumulator tree
TreeDepth == 2
\* number of memo elements
MemoLen == 1
\* largest amount of a native record handed to the builder
MaxAmount == 1

(* ---------------- program constants ---------------- *)

NATIVE_ASSET_CODE == 1

(* ---------------- field and group arithmetic ---------------- *)

F == 0 .. (P - 1)

FAdd(a, b) == (a + b) % P

FSub(a, b) == (a - b + P) % P

FMul(a, b) == (a * b) % P

\* InnerScalarField::from(u64)
FromU64(x) == x % P

\* the embedded group, written additively; its neutral element is 0
NeutralPoint == 0

EccAdd(p, q) == (p + q) % P

Min(a, b) == IF a < b THEN a ELSE b

(* ---------------- gadgets of the constraint system ---------------- *)

\* value returned by check_is_zero
CheckIsZero(a) == IF a = 0 THEN 1 ELSE 0

\* value returned by check_equal
CheckEqual(a, b) == CheckIsZero(FSub(a, b))

\* value returned by logic_neg
LogicNeg(a) == CheckIsZero(a)

\* bool_gate: a * a = a
BoolGateOk(a) == FMul(a, a) = a

\* equal_gate: a = b
EqualGateOk(a, b) == a = b

\* logic_or_gate: a + b - a * b = 1
LogicOrGateOk(a, b) == FSub(FAdd(a, b), FMul(a, b)) = 1

\* point_equal_gate
PointEqualGateOk(p, q) == p = q

RECURSIVE Absorb(_, _)
Absorb(st, m) ==
    IF m = <<>> THEN st
    ELSE Absorb((2 * st + Head(m) + 1) % P, Tail(m))

\* rescue_sponge_no_padding(msg, 1)[0]
RescueSponge(m) == Absorb(0, m)

\* commit(msg, blinding): the sponge over the blinding followed by msg
Commit(m, r) == Absorb(1, <<r>> \o m)

\* RecordOpeningVar::derive_record_commitment_var
DeriveRecordCommitment(ro) ==
    Commit(<<ro.addr>> \o ro.payload.data
           \o <<ro.payload.is_dummy, ro.pid_birth, ro.pid_death, ro.nonce>>,
           ro.blinding)

\* RecordOpeningVar::nullify
Nullify(ro, nk) == RescueSponge(<<nk, DeriveRecordCommitment(ro), ro.nonce>>)

\* ProofGenerationKeyVar::derive_diversifier
DeriveDiversifier(pgk, rho_div) == RescueSponge(<<pgk.ak, pgk.nk, rho_div>>)

\* hash of an accumulated element
LeafHash(uid, elem) == RescueSponge(<<0, uid, elem>>)

\* hash of two children
NodeHash(l, r) == RescueSponge(<<l, r>>)

RECURSIVE MerkleFold(_, _)
MerkleFold(cur, path) ==
    IF path = <<>> THEN cur
    ELSE MerkleFold(IF Head(path).pos = 0
                    THEN NodeHash(cur, Head(path).sib)
                    ELSE NodeHash(Head(path).sib, cur), Tail(path))

\* compute_merkle_root(AccElemVars {uid, elem}, merkle_path)
ComputeMerkleRoot(uid, elem, path) == MerkleFold(LeafHash(uid, elem), path)

(* ---------------- assembling a transaction (off-circuit) ---------------- *)

VARIABLES
    pc,                         \* position in the life of one transaction
    witness,                    \* DPCUtxoWitness
    public_input,               \* DPCUtxoPublicInput
    witness_tampered,           \* one field of the witness was changed
    public_tampered,            \* one field of the public input was changed
    circuit,                    \* gates of the PlonkCircuit, in emission order
    variables,                  \* variables of the PlonkCircuit, in allocation order
    result,                     \* outcome of build and of the satisfiability check
    locals                      \* locals of a call of build that is under way

vars == <<pc, witness, public_input, witness_tampered, public_tampered,
          circuit, variables, result, locals>>

buildVars == <<circuit, variables, result, locals>>

\* the key chain of the wallet that owns every record
Pgk == [ak |-> 1, nk |-> 2]

\* msk.derive_diversified_address(&pgk, &ivk, k): (address, diversifier)
DiversifierOf(k) == FromU64(k)

AddressOf(k) == DeriveDiversifier(Pgk, DiversifierOf(k))

\* RecordOpening::dummy()
DummyRecordOpening ==
    [addr |-> 0, payload |-> [data |-> <<0, 0>>, is_dummy |-> 1],
     pid_birth |-> 0, pid_death |-> 0, nonce |-> 0, blinding |-> 0]

\* RecordOpening::new(rng, addr, payload, pid_birth, pid_death, position, first_nullifier)
NewRecordOpening(addr, data, pid_birth, pid_death, position, first_nullifier) ==
    [addr |-> addr, payload |-> [data |-> data, is_dummy |-> 0],
     pid_birth |-> pid_birth, pid_death |-> pid_death,
     nonce |-> RescueSponge(<<FromU64(position), first_nullifier, 1>>),
     blinding |-> 1]

\* RecordOpening::new_native_asset(rng, addr, amount, position, first_nullifier)
NewNativeAsset(addr, amount, position, first_nullifier) ==
    NewRecordOpening(addr, <<NATIVE_ASSET_CODE, FromU64(amount)>>, 0, 0,
                     position, first_nullifier)

\* the kinds of record a caller puts at a position other than the fee slot
NonFeeKinds == {"source", "dummy"}

\* the record a caller spends at position k (counted from 0)
InputRecord(k, kind, amount) ==
    CASE kind = "native" -> NewNativeAsset(AddressOf(k), amount, 0, 0)
      [] kind = "source" -> NewRecordOpening(AddressOf(k), <<0, 0>>, 0,
                                             FromU64(k + 1), 1, 1)
      [] OTHER -> DummyRecordOpening

\* the record a caller creates at position j (counted from 0)
OutputRecord(j, kind, amount, first_nullifier) ==
    CASE kind = "native" -> NewNativeAsset(AddressOf(j), amount, j, first_nullifier)
      [] kind = "source" -> NewRecordOpening(AddressOf(j), <<0, 0>>,
                                             FromU64(j + 2), 0, j, first_nullifier)
      [] OTHER -> DummyRecordOpening

\* MerkleTree: node idx of a level, level 0 being the hashed leaves
RECURSIVE TreeNode(_, _, _)
TreeNode(leaves, level, i) ==
    IF level = 0
    THEN IF i < Len(leaves) THEN LeafHash(FromU64(i), leaves[i + 1]) ELSE 0
    ELSE NodeHash(TreeNode(leaves, level - 1, 2 * i),
                  TreeNode(leaves, level - 1, 2 * i + 1))

\* the node index of leaf i at a level, and of its sibling
Ancestor(i, level) == i \div (2 ^ level)

Sibling(i) == IF i % 2 = 0 THEN i + 1 ELSE i - 1

\* AccMemberWitness::lookup_from_tree(&merkle_tree, i)
LookupFromTree(leaves, i) ==
    [uid |-> FromU64(i),
     merkle_path |-> [k \in 1 .. TreeDepth |->
                        [sib |-> TreeNode(leaves, k - 1, Sibling(Ancestor(i, k - 1))),
                         pos |-> Ancestor(i, k - 1) % 2]],
     root |-> TreeNode(leaves, TreeDepth, 0)]

\* AccMemberWitness::dummy()
DummyAccMemberWitness ==
    [uid |-> 0, merkle_path |-> [k \in 1 .. TreeDepth |-> [sib |-> 0, pos |-> 0]],
     root |-> 0]

\* the notes a caller spends: the records that are not dummy are pushed to
\* the accumulator in order and looked up again
NoteInputs(ros) ==
    LET live == {k \in 1 .. Len(ros) : ros[k].payload.is_dummy = 0}
        rank(k) == Cardinality({j \in live : j < k})
        leaves == [r \in 1 .. Cardinality(live) |->
                     DeriveRecordCommitment(ros[CHOOSE k \in live : rank(k) = r - 1])]
    IN [k \in 1 .. Len(ros) |->
          [ro |-> ros[k],
           acc_member_witness |-> IF k \in live THEN LookupFromTree(leaves, rank(k))
                                  ELSE DummyAccMemberWitness,
           proof_gen_key |-> Pgk,
           authorization_randomizer |-> 0,
           diversifier_randomizer |-> IF k \in live THEN DiversifierOf(k - 1) ELSE 0]]

EmptyPublicInput ==
    [input_nullifiers |-> <<>>, output_commitments |-> <<>>,
     commitment_predicates |-> 0, commitment_local_data |-> 0, root |-> 0,
     fee |-> 0, memo |-> <<>>, authorization_verification_key |-> NeutralPoint]

\* build: the locals as declared before the loop over the inputs
BuildLocals ==
    [compressed_local_data |-> <<>>,
     derived_authorization_key |-> NeutralPoint,
     is_fee_ro |-> TRUE,
     is_fee_chg_ro |-> TRUE,
     turn |-> 0]

BuildIdle ==
    /\ circuit = <<>>
    /\ variables = <<>>
    /\ result = "none"
    /\ locals = BuildLocals

\* the caller has chosen the notes to spend; the fee note comes first
Init ==
    /\ pc = "inputs"
    /\ \E n \in 1 .. MaxN, amount \in 0 .. MaxAmount :
       \E kinds \in [2 .. n -> NonFeeKinds] :
          witness = [entire_inputs |->
                        NoteInputs([k \in 1 .. n |->
                            InputRecord(k - 1, IF k = 1 THEN "native" ELSE kinds[k],
                                        amount)]),
                     entire_output_records_openings |-> <<>>,
                     blinding_local_data |-> 1,
                     blinding_predicates |-> 2]
    /\ public_input = EmptyPublicInput
    /\ witness_tampered = FALSE
    /\ public_tampered = FALSE
    /\ BuildIdle

\* a field element replaced by another one, a flag by the other flag
Bump(v) == (v + 1) % P

Flip(b) == 1 - b

\* a field element that is no flag
NonBoolean == 2

\* a record opening with one field changed
TamperedRecordOpenings(ro) ==
    {[ro EXCEPT ![f] = Bump(@)] :
        f \in {"addr", "pid_birth", "pid_death", "nonce", "blinding"}}
    \cup {[ro EXCEPT !.payload.data[d] = Bump(@)] : d \in 1 .. Len(ro.payload.data)}
    \cup {[ro EXCEPT !.payload.is_dummy = Flip(@)],
          [ro EXCEPT !.payload.is_dummy = NonBoolean]}

\* a note input with one field changed
TamperedNoteInputs(input) ==
    {[input EXCEPT !.ro = r] : r \in TamperedRecordOpenings(input.ro)}
    \cup {[input EXCEPT !.acc_member_witness.uid = Bump(@)],
          [input EXCEPT !.acc_member_witness.root = Bump(@)],
          [input EXCEPT !.proof_gen_key.ak = Bump(@)],
          [input EXCEPT !.proof_gen_key.nk = Bump(@)],
          [input EXCEPT !.authorization_randomizer = Bump(@)],
          [input EXCEPT !.diversifier_randomizer = Bump(@)]}
    \cup {[input EXCEPT !.acc_member_witness.merkle_path[l].sib = Bump(@)] :
            l \in 1 .. Len(input.acc_member_witness.merkle_path)}
    \cup {[input EXCEPT !.acc_member_witness.merkle_path[l].pos = Flip(@)] :
            l \in 1 .. Len(input.acc_member_witness.merkle_path)}

\* a public input with one field changed
TamperedPublicInputs(pub) ==
    {[pub EXCEPT ![f] = Bump(@)] :
        f \in {"commitment_predicates", "commitment_local_data", "root", "fee",
               "authorization_verification_key"}}
    \cup {[pub EXCEPT !.input_nullifiers[k] = Bump(@)] :
            k \in 1 .. Len(pub.input_nullifiers)}
    \cup {[pub EXCEPT !.output_commitments[k] = Bump(@)] :
            k \in 1 .. Len(pub.output_commitments)}
    \cup {[pub EXCEPT !.memo[k] = Bump(@)] : k \in 1 .. Len(pub.memo)}

\* the caller hands over a note that differs from the honest one in one field
TamperInput ==
    /\ pc = "inputs"
    /\ ~witness_tampered
    /\ \E k \in 1 .. Len(witness.entire_inputs) :
       \E input \in TamperedNoteInputs(witness.entire_inputs[k]) :
          witness' = [witness EXCEPT !.entire_inputs[k] = input]
    /\ witness_tampered' = TRUE
    /\ UNCHANGED <<pc, public_input, public_tampered>>
    /\ UNCHANGED buildVars

\* ro.nullify(&pgk.nk) of the first input
FirstNullifier(w) ==
    Nullify(w.entire_inputs[1].ro, w.entire_inputs[1].proof_gen_key.nk)

\* the caller creates as many outputs as there are inputs, the fee change
\* first, each with the nonce of its position under the first nullifier
MakeOutputs ==
    /\ pc = "inputs"
    /\ \E amount \in {0, MaxAmount} :
       \E kinds \in [2 .. Len(witness.entire_inputs) -> NonFeeKinds] :
          witness' = [witness EXCEPT !.entire_output_records_openings =
                        [j \in 1 .. Len(witness.entire_inputs) |->
                            OutputRecord(j - 1, IF j = 1 THEN "native" ELSE kinds[j],
                                         amount, FirstNullifier(witness))]]
    /\ pc' = "outputs"
    /\ UNCHANGED <<public_input, witness_tampered, public_tampered>>
    /\ UNCHANGED buildVars

\* the caller hands over an output, or a blinding factor, that differs from
\* the honest one in one field
TamperOutput ==
    /\ pc = "outputs"
    /\ ~witness_tampered
    /\ \/ \E j \in 1 .. Len(witness.entire_output_records_openings) :
          \E ro \in TamperedRecordOpenings(witness.entire_output_records_openings[j]) :
             witness' = [witness EXCEPT !.entire_output_records_openings[j] = ro]
       \/ witness' = [witness EXCEPT !.blinding_local_data = Bump(@)]
       \/ witness' = [witness EXCEPT !.blinding_predicates = Bump(@)]
    /\ witness_tampered' = TRUE
    /\ UNCHANGED <<pc, public_input, public_tampered>>
    /\ UNCHANGED buildVars

\* the elements of a sequence from the second on
Skip1(s) == IF s = <<>> THEN <<>> ELSE Tail(s)

RECURSIVE SumPoints(_)
SumPoints(s) == IF s = <<>> THEN NeutralPoint ELSE EccAdd(Head(s), SumPoints(Tail(s)))

\* DPCUtxoPublicInput::from_witness(&witness, fee, memo)
FromWitnessValue(w, fee, memo) ==
    LET rc_in == [k \in 1 .. Len(w.entire_inputs) |->
                    DeriveRecordCommitment(w.entire_inputs[k].ro)]
        rc_out == [j \in 1 .. Len(w.entire_output_records_openings) |->
                    DeriveRecordCommitment(w.entire_output_records_openings[j])]
        pids == [k \in 1 .. Len(w.entire_inputs) - 1 |->
                    w.entire_inputs[k + 1].ro.pid_death]
                \o [j \in 1 .. Len(w.entire_output_records_openings) - 1 |->
                    w.entire_output_records_openings[j + 1].pid_birth]
    IN [input_nullifiers |->
            [k \in 1 .. Len(w.entire_inputs) |->
                Nullify(w.entire_inputs[k].ro, w.entire_inputs[k].proof_gen_key.nk)],
        output_commitments |-> rc_out,
        commitment_predicates |-> Commit(pids, w.blinding_predicates),
        commitment_local_data |-> Commit(rc_in \o rc_out \o memo, w.blinding_local_data),
        root |-> w.entire_inputs[1].acc_member_witness.root,
        fee |-> fee,
        memo |-> memo,
        authorization_verification_key |->
            SumPoints([k \in 1 .. Len(w.entire_inputs) |->
                EccAdd(w.entire_inputs[k].proof_gen_key.ak,
                       w.entire_inputs[k].authorization_randomizer)])]

\* the fee a caller declares: the difference of the two fee-slot amounts
DeclaredFee(w) ==
    FSub(w.entire_inputs[1].ro.payload.data[2],
         w.entire_output_records_openings[1].payload.data[2])

\* the caller derives the public input from the witness
FromWitness ==
    /\ pc = "outputs"
    /\ public_input' = FromWitnessValue(witness, DeclaredFee(witness),
                                        [k \in 1 .. MemoLen |-> 0])
    /\ pc' = "public"
    /\ UNCHANGED <<witness, witness_tampered, public_tampered>>
    /\ UNCHANGED buildVars

\* the caller replaces one value of the public input
TamperPublic ==
    /\ pc = "public"
    /\ ~public_tampered
    /\ public_input' \in TamperedPublicInputs(public_input)
    /\ public_tampered' = TRUE
    /\ UNCHANGED <<pc, witness, witness_tampered>>
    /\ UNCHANGED buildVars

\* the caller advertises another commitment for one output, or another memo,
\* and commits to the local data it advertises
AdvertiseLocalData ==
    /\ pc = "public"
    /\ ~public_tampered
    /\ \E pub \in {[public_input EXCEPT !.output_commitments[j] = Bump(@)] :
                        j \in 1 .. Len(public_input.output_commitments)}
                  \cup {[public_input EXCEPT !.memo[k] = Bump(@)] :
                        k \in 1 .. Len(public_input.memo)} :
          public_input' =
            [pub EXCEPT !.commitment_local_data =
                Commit([k \in 1 .. Len(witness.entire_inputs) |->
                            DeriveRecordCommitment(witness.entire_inputs[k].ro)]
                       \o pub.output_commitments \o pub.memo,
                       witness.blinding_local_data)]
    /\ public_tampered' = TRUE
    /\ UNCHANGED <<pc, witness, witness_tampered>>
    /\ UNCHANGED buildVars

(* ---------------- the circuit builder ---------------- *)

\* a gate, or the gates of one gadget call, and whether the assignment of the
\* builder satisfies it
Gate(name, ok) == [name |-> name, ok |-> ok]

\* the gates of one block of build, marked with the block and the record index
Emitted(block, index, gates) ==
    [g \in 1 .. Len(gates) |->
        [block |-> block, index |-> index, name |-> gates[g].name, ok |-> gates[g].ok]]

\* NoteInputVar::new
NoteInputVarNew(input) ==
    [record_opening_var |-> input.ro,
     acc_member_witness_var |-> [uid |-> input.acc_member_witness.uid,
                                 merkle_path |-> input.acc_member_witness.merkle_path],
     proof_generation_key_var |-> input.proof_gen_key,
     authorization_randomizer_var |-> input.authorization_randomizer,
     diversifier_randomizer_var |-> input.diversifier_randomizer]

\* DPCUtxoWitnessVar::new
DPCUtxoWitnessVarNew(w) ==
    [inputs |-> [k \in 1 .. Len(w.entire_inputs) |-> NoteInputVarNew(w.entire_inputs[k])],
     output_records_openings |-> w.entire_output_records_openings,
     blinding_local_data |-> w.blinding_local_data,
     blinding_predicates |-> w.blinding_predicates]

\* DPCUtxoPubInputVar::new
DPCUtxoPubInputVarNew(pub) ==
    [nullifiers |-> pub.input_nullifiers,
     output_commitments |-> pub.output_commitments,
     predicates_commitment |-> pub.commitment_predicates,
     local_data_commitment |-> pub.commitment_local_data,
     root |-> pub.root,
     fee |-> FromU64(pub.fee),
     memo |-> pub.memo,
     authorization_verification_key |-> pub.authorization_verification_key]

\* a variable of the circuit: public or witness, and what it stands for
Var(kind, name, index) == [kind |-> kind, name |-> name, index |-> index]

\* DPCUtxoWitnessVar::new: the inputs, the outputs and the two blinding factors
\* become witness variables, in this order
WitnessVarAllocations(w) ==
    [k \in 1 .. Len(w.entire_inputs) |-> Var("witness", "input", k - 1)]
    \o [j \in 1 .. Len(w.entire_output_records_openings) |->
            Var("witness", "output", j - 1)]
    \o <<Var("witness", "blinding_local_data", 0),
          Var("witness", "blinding_predicates", 0)>>

\* the public variables with the root and the fee allocated first
PubInputVarAllocationsRootFirst(pub) ==
    <<Var("public", "root", 0), Var("public", "fee", 0)>>
    \o [k \in 1 .. Len(pub.input_nullifiers) |-> Var("public", "nullifier", k - 1)]
    \o [j \in 1 .. Len(pub.output_commitments) |->
            Var("public", "output_commitment", j - 1)]
    \o <<Var("public", "predicates_commitment", 0),
          Var("public", "local_data_commitment", 0)>>
    \o [m \in 1 .. Len(pub.memo) |-> Var("public", "memo", m - 1)]
    \o <<Var("public", "authorization_verification_key.x", 0),
          Var("public", "authorization_verification_key.y", 0)>>

\* DPCUtxoPubInputVar::new: the public variables in the order of their
\* create_public_variable calls, the point giving two variables
PubInputVarAllocations(pub) ==
    [k \in 1 .. Len(pub.input_nullifiers) |-> Var("public", "nullifier", k - 1)]
    \o [j \in 1 .. Len(pub.output_commitments) |->
            Var("public", "output_commitment", j - 1)]
    \o <<Var("public", "predicates_commitment", 0),
          Var("public", "local_data_commitment", 0),
          Var("public", "root", 0),
          Var("public", "fee", 0)>>
    \o [m \in 1 .. Len(pub.memo) |-> Var("public", "memo", m - 1)]
    \o <<Var("public", "authorization_verification_key.x", 0),
          Var("public", "authorization_verification_key.y", 0)>>

\* build and prove_output: the constant of the native asset, then the
\* position of each output proved
LaterAllocations(w, pub) ==
    <<Var("constant", "native_asset_type", 0)>>
    \o [j \in 1 .. Min(Len(w.entire_output_records_openings),
                       Len(pub.output_commitments)) |->
            Var("witness", "position_in_note", j - 1)]

\* the fee gates written with the bypass used for the other checks
FeeInputGatesBypassed(is_fee_input, is_dummy, asset_type, native_asset_type) ==
    IF is_fee_input
    THEN <<Gate("fee_not_dummy", TRUE),
           Gate("fee_native",
                LogicOrGateOk(is_dummy, CheckEqual(asset_type, native_asset_type)))>>
    ELSE <<>>

\* the fee-input gates emitted at every position
FeeInputGatesAtEveryPosition(is_fee_input, is_dummy, asset_type, native_asset_type) ==
    <<Gate("fee_not_dummy", EqualGateOk(is_dummy, 0)),
      Gate("fee_native", EqualGateOk(asset_type, native_asset_type))>>

\* prove_spend: the first record is the fee input, it cannot be dummy and
\* holds the native asset
FeeInputGates(is_fee_input, is_dummy, asset_type, native_asset_type) ==
    IF is_fee_input
    THEN <<Gate("fee_not_dummy", EqualGateOk(is_dummy, 0)),
           Gate("fee_native", EqualGateOk(asset_type, native_asset_type))>>
    ELSE <<>>

\* the membership gate comparing the derived root with itself
MembershipGateUnbound(is_dummy, derived_root, public_root) ==
    Gate("membership", LogicOrGateOk(is_dummy, CheckEqual(derived_root, derived_root)))

\* prove_spend: the record is dummy or its commitment is accumulated
MembershipGate(is_dummy, derived_root, public_root) ==
    Gate("membership", LogicOrGateOk(is_dummy, CheckEqual(derived_root, public_root)))

\* the nullifier gate without the bypass of dummy records
NullifierGateNoBypass(is_dummy, nullifier, public_nullifier) ==
    Gate("nullifier", EqualGateOk(nullifier, public_nullifier))

\* the nullifier gate comparing the derived nullifier with itself
NullifierGateUnbound(is_dummy, nullifier, public_nullifier) ==
    Gate("nullifier", LogicOrGateOk(is_dummy, CheckEqual(nullifier, nullifier)))

\* prove_spend: the record is dummy or the nullifier is the public one
NullifierGate(is_dummy, nullifier, public_nullifier) ==
    Gate("nullifier", LogicOrGateOk(is_dummy, CheckEqual(nullifier, public_nullifier)))

\* the authorization key left out of the randomized key
RandAuthKeyWithoutKey(ak, authorization_randomizer) == authorization_randomizer

\* prove_spend: the randomized authorization key
RandAuthKey(ak, authorization_randomizer) == EccAdd(ak, authorization_randomizer)

\* the diversifier gate without the bypass of dummy records
DiversifierGateNoBypass(is_dummy, diversifier, addr) ==
    Gate("diversifier", EqualGateOk(diversifier, addr))

\* the diversifier compared with itself, the address left out
DiversifierGateUnbound(is_dummy, diversifier, addr) ==
    Gate("diversifier", LogicOrGateOk(is_dummy, CheckEqual(diversifier, diversifier)))

\* prove_spend: the record is dummy or its address is the diversified one
DiversifierGate(is_dummy, diversifier, addr) ==
    Gate("diversifier", LogicOrGateOk(is_dummy, CheckEqual(diversifier, addr)))

\* DPCUtxoCircuit::prove_spend
ProveSpend(input, public_nullifier, public_root, is_fee_input, native_asset_type) ==
    LET is_dummy == input.record_opening_var.payload.is_dummy
        record_commitment == DeriveRecordCommitment(input.record_opening_var)
        derived_root == ComputeMerkleRoot(input.acc_member_witness_var.uid,
                                          record_commitment,
                                          input.acc_member_witness_var.merkle_path)
        nullifier == Nullify(input.record_opening_var, input.proof_generation_key_var.nk)
        rand_auth_key == RandAuthKey(input.proof_generation_key_var.ak,
                                     input.authorization_randomizer_var)
        diversifier == DeriveDiversifier(input.proof_generation_key_var,
                                         input.diversifier_randomizer_var)
    IN [gates |->
            <<Gate("bool", BoolGateOk(is_dummy)),
              Gate("derive_record_commitment", TRUE),
              Gate("compute_merkle_root", TRUE)>>
            \o FeeInputGates(is_fee_input, is_dummy,
                             input.record_opening_var.payload.data[1],
                             native_asset_type)
            \o <<MembershipGate(is_dummy, derived_root, public_root),
                 NullifierGate(is_dummy, nullifier, public_nullifier),
                 Gate("rand_auth_key", TRUE),
                 DiversifierGate(is_dummy, diversifier, input.record_opening_var.addr)>>,
        record_commitment |-> record_commitment,
        rand_auth_key |-> rand_auth_key]

\* the nonce message without the position of the output
OutputNonceMsgNoPosition(i_var, first_nullifier) == <<0, first_nullifier, 1>>

\* prove_output: the message the nonce is derived from, one as official padding
OutputNonceMsg(i_var, first_nullifier) == <<i_var, first_nullifier, 1>>

\* the fee-change gates written with the bypass used for the other checks
FeeChangeGatesBypassed(is_fee_chg, is_dummy, asset_type, native_asset_type) ==
    IF is_fee_chg
    THEN <<Gate("fee_chg_not_dummy", TRUE),
           Gate("fee_chg_native",
                LogicOrGateOk(is_dummy, CheckEqual(asset_type, native_asset_type)))>>
    ELSE <<>>

\* prove_output: the fee change cannot be dummy and holds the native asset
FeeChangeGates(is_fee_chg, is_dummy, asset_type, native_asset_type) ==
    IF is_fee_chg
    THEN <<Gate("fee_chg_not_dummy", EqualGateOk(is_dummy, 0)),
           Gate("fee_chg_native", EqualGateOk(asset_type, native_asset_type))>>
    ELSE <<>>

\* the nonce check dropped
OutputNonceGateUnbound(correct_nonce, is_dummy) == Gate("nonce", TRUE)

\* the nonce check bypassed by the negation of the dummy flag
OutputNonceGateNegatedFlag(correct_nonce, is_dummy) ==
    Gate("nonce", LogicOrGateOk(correct_nonce, LogicNeg(is_dummy)))

\* prove_output: the nonce is the derived one or the output is dummy
OutputNonceGate(correct_nonce, is_dummy) ==
    Gate("nonce", LogicOrGateOk(correct_nonce, is_dummy))

\* the commitment check dropped
OutputCommitmentGateUnbound(correct_rc, is_dummy) == Gate("commitment", TRUE)

\* prove_output: the public commitment is the derived one or the output is dummy
OutputCommitmentGate(correct_rc, is_dummy) ==
    Gate("commitment", LogicOrGateOk(correct_rc, is_dummy))

\* DPCUtxoCircuit::prove_output
ProveOutput(output, output_rc_var, is_fee_chg, native_asset_type, position_in_note, first_nullifier) ==
    LET is_not_dummy == CheckIsZero(output.payload.is_dummy)
        is_dummy == LogicNeg(is_not_dummy)
        i_var == FromU64(position_in_note)
        msg == OutputNonceMsg(i_var, first_nullifier)
        derived_nonce == RescueSponge(msg)
        correct_nonce == CheckEqual(derived_nonce, output.nonce)
        derived_output_rc == DeriveRecordCommitment(output)
        correct_rc == CheckEqual(derived_output_rc, output_rc_var)
    IN <<OutputNonceGate(correct_nonce, is_dummy),
         OutputCommitmentGate(correct_rc, is_dummy)>>
       \o FeeChangeGates(is_fee_chg, output.payload.is_dummy,
                         output.payload.data[1], native_asset_type)

\* the difference taken the other way round
FeeDiffReversed(fee_input_amount, fee_chg_amount) == FSub(fee_chg_amount, fee_input_amount)

\* the difference of a subtraction that refuses to go below zero
FeeDiffSaturating(fee_input_amount, fee_chg_amount) ==
    IF fee_input_amount >= fee_chg_amount
    THEN FSub(fee_input_amount, fee_chg_amount)
    ELSE 0

\* build: the difference between the fee input and the fee change
FeeDiff(fee_input_amount, fee_chg_amount) == FSub(fee_input_amount, fee_chg_amount)

\* the memo put in front of the local data
LocalDataMemoFirst(local_data, memo) == memo \o local_data

\* build: the memo is appended to the local data
LocalDataWithMemo(local_data, memo) == local_data \o memo

\* the predicate identifiers with the fee input not skipped
PredicateIdsWithFeeInput(inputs, output_records_openings) ==
    [k \in 1 .. Len(inputs) |-> inputs[k].record_opening_var.pid_death]
    \o [j \in 1 .. Len(Skip1(output_records_openings)) |->
            Skip1(output_records_openings)[j].pid_birth]

\* the predicate identifiers of the inputs alone
PredicateIdsInputsOnly(inputs, output_records_openings) ==
    [k \in 1 .. Len(Skip1(inputs)) |-> Skip1(inputs)[k].record_opening_var.pid_death]

\* build: the predicate identifiers, fee input and fee output ignored
PredicateIds(inputs, output_records_openings) ==
    LET input_pid_death ==
            [k \in 1 .. Len(Skip1(inputs)) |->
                Skip1(inputs)[k].record_opening_var.pid_death]
        output_pid_birth ==
            [j \in 1 .. Len(Skip1(output_records_openings)) |->
                Skip1(output_records_openings)[j].pid_birth]
    IN input_pid_death \o output_pid_birth

\* build: the loop over the inputs zipped with the nullifiers, from turn i on;
\* st holds the circuit and the locals of build
RECURSIVE SpendLoop(_, _, _, _)
SpendLoop(st, inputs, pub, i) ==
    IF i >= Min(Len(inputs), Len(pub.nullifiers)) THEN st
    ELSE LET Turn(spend) ==
                SpendLoop(
                    [circuit |-> st.circuit \o Emitted("spend", i, spend.gates),
                     compressed_local_data |->
                        Append(st.compressed_local_data, spend.record_commitment),
                     derived_authorization_key |->
                        EccAdd(st.derived_authorization_key, spend.rand_auth_key),
                     is_fee_ro |-> FALSE],
                    inputs, pub, i + 1)
         IN Turn(ProveSpend(inputs[i + 1], pub.nullifiers[i + 1], pub.root,
                            st.is_fee_ro, NATIVE_ASSET_CODE))

\* build: the loop over the outputs zipped with the commitments, from turn i on
RECURSIVE OutputLoop(_, _, _, _)
OutputLoop(st, outputs, pub, i) ==
    IF i >= Min(Len(outputs), Len(pub.output_commitments)) THEN st
    ELSE OutputLoop(
            [circuit |-> st.circuit \o Emitted("output", i,
                ProveOutput(outputs[i + 1], pub.output_commitments[i + 1],
                            st.is_fee_chg_ro, NATIVE_ASSET_CODE, i,
                            pub.nullifiers[1])),
             compressed_local_data |->
                Append(st.compressed_local_data, pub.output_commitments[i + 1]),
             is_fee_chg_ro |-> FALSE],
            outputs, pub, i + 1)

\* build: every input is spent and the aggregated randomized verification
\* key is compared
BuildCheckInputs(witness_var, public_input_var) ==
    LET Compare(st) ==
            [circuit |-> st.circuit \o Emitted("auth_key", 0,
                <<Gate("point_equal",
                       PointEqualGateOk(public_input_var.authorization_verification_key,
                                        st.derived_authorization_key))>>),
             compressed_local_data |-> st.compressed_local_data]
    IN Compare(SpendLoop([circuit |-> <<>>,
                          compressed_local_data |-> <<>>,
                          derived_authorization_key |-> NeutralPoint,
                          is_fee_ro |-> TRUE],
                         witness_var.inputs, public_input_var, 0))

\* build: every output is proved, then the fee is the difference of the two
\* fee-slot amounts
BuildCheckOutputs(spent, witness_var, public_input_var) ==
    LET diff == FeeDiff(witness_var.inputs[1].record_opening_var.payload.data[2],
                        witness_var.output_records_openings[1].payload.data[2])
        Compare(st) ==
            [circuit |-> st.circuit \o Emitted("fee", 0,
                <<Gate("equal", EqualGateOk(diff, public_input_var.fee))>>),
             compressed_local_data |-> st.compressed_local_data]
    IN Compare(OutputLoop([circuit |-> spent.circuit,
                           compressed_local_data |-> spent.compressed_local_data,
                           is_fee_chg_ro |-> TRUE],
                          witness_var.output_records_openings, public_input_var, 0))

\* the commitment to the predicates compared before the one to the local data
BuildCheckCommitmentsPredicatesFirst(proved, witness_var, public_input_var) ==
    proved.circuit
        \o Emitted("predicates", 0,
            <<Gate("equal",
                   EqualGateOk(Commit(PredicateIds(witness_var.inputs,
                                                   witness_var.output_records_openings),
                                      witness_var.blinding_predicates),
                               public_input_var.predicates_commitment))>>)
        \o Emitted("local_data", 0,
            <<Gate("equal",
                   EqualGateOk(Commit(LocalDataWithMemo(proved.compressed_local_data,
                                                        public_input_var.memo),
                                      witness_var.blinding_local_data),
                               public_input_var.local_data_commitment))>>)

\* build: the memo is appended to the local data, which is committed to; then
\* the predicate identifiers are committed to, the fee slots left out
BuildCheckCommitments(proved, witness_var, public_input_var) ==
    LET compressed_local_data ==
            LocalDataWithMemo(proved.compressed_local_data, public_input_var.memo)
        derived_ldata_com ==
            Commit(compressed_local_data, witness_var.blinding_local_data)
        pids == PredicateIds(witness_var.inputs, witness_var.output_records_openings)
        derived_predicates_commitment ==
            Commit(pids, witness_var.blinding_predicates)
    IN proved.circuit
        \o Emitted("local_data", 0,
            <<Gate("equal", EqualGateOk(derived_ldata_com,
                                        public_input_var.local_data_commitment))>>)
        \o Emitted("predicates", 0,
            <<Gate("equal", EqualGateOk(derived_predicates_commitment,
                                        public_input_var.predicates_commitment))>>)

\* build, after the variables are allocated: the blocks in order
BuildChecks(witness_var, public_input_var) ==
    BuildCheckCommitments(
        BuildCheckOutputs(BuildCheckInputs(witness_var, public_input_var),
                          witness_var, public_input_var),
        witness_var, public_input_var)

\* the gates DPCUtxoCircuit::build emits for a witness and a public input
BuildGates(w, pub) == BuildChecks(DPCUtxoWitnessVarNew(w), DPCUtxoPubInputVarNew(pub))

\* the variables DPCUtxoCircuit::build allocates, in order
BuildVariables(w, pub) ==
    WitnessVarAllocations(w) \o PubInputVarAllocations(pub) \o LaterAllocations(w, pub)

\* every gate of the circuit holds under the assignment of the builder
Satisfied(c) == \A g \in 1 .. Len(c) : c[g].ok

\* a finalization that evaluates the gates and reports a failing one
FinalizeReportingViolations(c) == IF Satisfied(c) THEN "Ok" ELSE "Err"

\* build: circuit.finalize_for_arithmetization()?; Ok(DPCUtxoCircuit(circuit))
\* the gates are laid out, not evaluated
FinalizeForArithmetization(c) == "Ok"

\* a circuit that goes on from the one an earlier call of build left
PlonkCircuitReused(left) == left

\* build: let mut circuit = PlonkCircuit::default(), a local of the call,
\* whatever an earlier call left
PlonkCircuitDefault(left) == [gates |-> <<>>, variables |-> <<>>]

\* DPCUtxoCircuit::build: a new circuit, the variables are allocated, the
\* blocks are emitted in order, the circuit is finalized and returned
BuildFrom(at, to) ==
    /\ pc = at
    /\ \E new \in {PlonkCircuitDefault([gates |-> circuit, variables |-> variables])} :
          /\ circuit' = new.gates \o BuildGates(witness, public_input)
          /\ variables' = new.variables \o BuildVariables(witness, public_input)
    /\ result' = FinalizeForArithmetization(circuit')
    /\ pc' = to
    /\ UNCHANGED <<witness, public_input, witness_tampered, public_tampered, locals>>

\* the caller builds the circuit of the transaction
Build == BuildFrom("public", "built")

\* the caller builds once more from the witness and the public input of a
\* circuit already built and checked
BuildAgain ==
    /\ ~public_tampered
    /\ BuildFrom("checked", "rebuilt")

\* a memo of no element
PreprocessingMemoEmpty == <<>>

\* build_for_preprocessing: vec![InnerScalarField::zero(); MEMO_LEN]
PreprocessingMemo == [k \in 1 .. MemoLen |-> 0]

\* DPCUtxoWitness::dummy(non_fee_input_size, &pgk): dummy notes and dummy
\* outputs, one more than asked for, the fee slot included
DPCUtxoWitnessDummy(non_fee_input_size, pgk) ==
    [entire_inputs |->
        [k \in 1 .. non_fee_input_size + 1 |->
            [ro |-> DummyRecordOpening,
             acc_member_witness |-> DummyAccMemberWitness,
             proof_gen_key |-> pgk,
             authorization_randomizer |-> 0,
             diversifier_randomizer |-> 0]],
     entire_output_records_openings |->
        [j \in 1 .. non_fee_input_size + 1 |-> DummyRecordOpening],
     blinding_local_data |-> 0,
     blinding_predicates |-> 0]

\* build_for_preprocessing: the dummy witness, the public input derived from
\* it with fee 0, and the circuit build makes of them
BuildForPreprocessingValue(non_fee_input_size) ==
    LET dummy_witness == DPCUtxoWitnessDummy(non_fee_input_size, Pgk)
        pub_input == FromWitnessValue(dummy_witness, 0, PreprocessingMemo)
    IN [witness |-> dummy_witness,
        public_input |-> pub_input,
        gates |-> BuildGates(dummy_witness, pub_input),
        variables |-> BuildVariables(dummy_witness, pub_input)]

\* the categories of DPCApiError
DPCApiError ==
    {"FailedSnark", "FailedPrimitives", "FailedSerialization", "OverOrUnderFlow",
     "GeneralError", "InvalidParameters", "FailedReceiverMemoSignature",
     "FailedAuthorizationSignature", "FailedTransactionVerification", "IoError",
     "InvalidParameter", "DeserializationError", "IncorrectFee",
     "ParametersGenerationError", "InternalError"}

\* the errors of the libraries that convert into a DPCApiError
ForeignErrors == {"PlonkError", "PrimitivesError", "anyhow::Error", "SerializationError"}

\* impl From<..> for DPCApiError, as the ? operator applies it
From(e) ==
    CASE e = "PrimitivesError" -> "FailedPrimitives"
      [] e = "anyhow::Error" -> "GeneralError"
      [] e = "SerializationError" -> "FailedSerialization"
      [] e = "PlonkError" -> "FailedSnark"
      [] OTHER -> e

\* what DPCUtxoPublicInput::from_witness may return
FromWitnessOutcomes == {"Ok"} \cup DPCApiError \cup ForeignErrors

\* what DPCUtxoCircuit::build may return: Ok, or the PlonkError of an
\* allocation or of the finalization
BuildOutcomes == {"Ok", "PlonkError"}

\* build_for_preprocessing: the error of build is replaced
MapBuildErr(e) == "InternalError"

\* DPCUtxoCircuit::build_for_preprocessing(non_fee_input_size), for the number
\* of notes the caller is about to spend; the error of from_witness leaves
\* with ?, the error of build goes through map_err
BuildForPreprocessing ==
    /\ pc = "inputs"
    /\ ~witness_tampered
    /\ \E from_witness \in FromWitnessOutcomes, build \in BuildOutcomes :
       \E pre \in {BuildForPreprocessingValue(Len(witness.entire_inputs) - 1)} :
          /\ witness' = pre.witness
          /\ IF from_witness # "Ok"
             THEN /\ public_input' = EmptyPublicInput
                  /\ circuit' = <<>>
                  /\ variables' = <<>>
                  /\ result' = From(from_witness)
             ELSE /\ public_input' = pre.public_input
                  /\ IF build # "Ok"
                     THEN /\ circuit' = <<>>
                          /\ variables' = <<>>
                          /\ result' = MapBuildErr(build)
                     ELSE /\ circuit' = pre.gates
                          /\ variables' = pre.variables
                          /\ result' = FinalizeForArithmetization(pre.gates)
    /\ pc' = "preprocessed"
    /\ UNCHANGED <<witness_tampered, public_tampered, locals>>

\* circuit.0.check_circuit_satisfiability(&public_input.to_scalars())
CheckCircuitSatisfiability ==
    /\ pc = "built"
    /\ result' = IF Satisfied(circuit) THEN "satisfied" ELSE "unsatisfied"
    /\ pc' = "checked"
    /\ UNCHANGED <<witness, public_input, witness_tampered, public_tampered,
                   circuit, variables, locals>>

Next ==
    \/ TamperInput
    \/ MakeOutputs
    \/ TamperOutput
    \/ FromWitness
    \/ TamperPublic
    \/ AdvertiseLocalData
    \/ Build
    \/ BuildAgain
    \/ BuildForPreprocessing
    \/ CheckCircuitSatisfiability

Spec == Init /\ [][Next]_vars

(* ---------------- the DEX example: the birth predicate ---------------- *)

DexMaxInputs == 3

DexMemoLen == 2

\* value returned by logic_and
LogicAnd(a, b) == FMul(a, b)

\* value returned by logic_or
LogicOr(a, b) == FSub(FAdd(a, b), FMul(a, b))

\* gen_birth_circuit_core: two notes and two records, plus one fee record
ExpectedNotes == 2 + 1

\* BirthPredicateMode into usize, counted from 1 here
MintIndex == 1

ConserveIndex == 2

\* ModeMemo::new(birth_mode, None)
ModeMemo(birth_mode) ==
    [k \in 1 .. DexMemoLen |->
        IF \/ (birth_mode = "Mint" /\ k = MintIndex)
           \/ (birth_mode = "Conserve" /\ k = ConserveIndex)
        THEN 1 ELSE 0]

\* compress_local_data(&entire_input_notes, &entire_output_records, memo)
CompressLocalData(inputs, outputs, memo) ==
    [k \in 1 .. Len(inputs) |-> DeriveRecordCommitment(inputs[k].ro)]
    \o [j \in 1 .. Len(outputs) |-> DeriveRecordCommitment(outputs[j])]
    \o memo

\* local_data_commitment_circuit: the commitment to the local data is the
\* public one
LocalDataCommitmentCircuit(inputs, outputs, memo, blinding, comm) ==
    <<Gate("local_data_commitment",
           EqualGateOk(Commit(CompressLocalData(inputs, outputs, memo), blinding), comm))>>

\* gen_birth_circuit_core, step 2: as many notes and records as expected
NumberGates(inputs, outputs) ==
    LET expected_notes_var == FromU64(ExpectedNotes)
        is_input_two == CheckEqual(FromU64(Len(inputs)), expected_notes_var)
        is_output_two == CheckEqual(FromU64(Len(outputs)), expected_notes_var)
        res == LogicAnd(is_input_two, is_output_two)
    IN <<Gate("number", EqualGateOk(res, 1))>>

\* gen_birth_circuit_core, step 3: one and only one of the two mode bits
ModeGates(is_mint, is_conserve) ==
    <<Gate("not_both_modes", EqualGateOk(LogicAnd(is_mint, is_conserve), 0)),
      Gate("one_mode", LogicOrGateOk(is_mint, is_conserve))>>

\* the dummy flags of the notes after the fee note
NonFeeFlags(inputs) ==
    [k \in 1 .. Len(Skip1(inputs)) |-> Skip1(inputs)[k].ro.payload.is_dummy]

\* the mint accumulator over the first of the notes only
MintSatisfiedFirstOnly(flags, acc) ==
    IF flags = <<>> THEN acc ELSE LogicAnd(Head(flags), acc)

\* gen_birth_circuit_core, step 4: logic_and of the dummy flags, from one
RECURSIVE MintSatisfied(_, _)
MintSatisfied(flags, acc) ==
    IF flags = <<>> THEN acc
    ELSE MintSatisfied(Tail(flags), LogicAnd(Head(flags), acc))

\* the conserve accumulator over the last of the notes only
ConserveSatisfiedLastOnly(flags, acc) ==
    IF flags = <<>> THEN acc ELSE flags[Len(flags)]

\* gen_birth_circuit_core, step 4: logic_or of the dummy flags, from zero
RECURSIVE ConserveSatisfied(_, _)
ConserveSatisfied(flags, acc) ==
    IF flags = <<>> THEN acc
    ELSE ConserveSatisfied(Tail(flags), LogicOr(Head(flags), acc))

\* gen_birth_circuit_core, step 4: each mode holds exactly when the memo asks
\* for it
ModeSatisfiedGates(flags, is_mint, is_conserve) ==
    LET is_mint_satisfied == CheckEqual(MintSatisfied(flags, 1), 1)
        is_conserve_satisfied == CheckEqual(ConserveSatisfied(flags, 0), 0)
    IN <<Gate("mint", EqualGateOk(is_mint_satisfied, is_mint)),
         Gate("conserve", EqualGateOk(is_conserve_satisfied, is_conserve))>>

\* pad_gate(PAD_GATES): gates that hold whatever the values
PAD_GATES == 1024

\* PlonkCircuit::pad_gate(n): n dummy gates
PadGate(n) == [g \in 1 .. n |-> Gate("pad", TRUE)]

\* the variables gen_birth_circuit_core allocates first
BirthVariables(inputs, outputs, memo) ==
    <<Var("public", "comm_local_data", 0), Var("witness", "blinding_local_data", 0)>>
    \o [k \in 1 .. Len(inputs) |-> Var("witness", "input", k - 1)]
    \o [j \in 1 .. Len(outputs) |-> Var("witness", "output", j - 1)]
    \o [m \in 1 .. Len(memo) |-> Var("witness", "memo", m - 1)]

\* DexPredicateCircuit::gen_birth_circuit_core of dex_example/mod.rs
GenBirthCircuitCoreGates(inputs, outputs, memo, blinding_local_data, comm_local_data) ==
    Emitted("birth", 0,
        LocalDataCommitmentCircuit(inputs, outputs, memo, blinding_local_data,
                                   comm_local_data)
        \o NumberGates(inputs, outputs)
        \o ModeGates(memo[MintIndex], memo[ConserveIndex])
        \o ModeSatisfiedGates(NonFeeFlags(inputs), memo[MintIndex], memo[ConserveIndex])
        \o PadGate(PAD_GATES))

\* gen_birth_circuit_core of dex_example.rs: every note after the fee note
\* is dummy
AllDummyGates(flags) ==
    [g \in 1 .. 2 * Len(flags) |->
        IF g % 2 = 1 THEN Gate("bool", BoolGateOk(flags[(g + 1) \div 2]))
        ELSE Gate("dummy", EqualGateOk(flags[g \div 2], 1))]

\* DexPredicateCircuit::gen_birth_circuit_core of dex_example.rs
GenBirthCircuitCoreMintOnlyGates(inputs, outputs, memo, blinding_local_data, comm_local_data) ==
    Emitted("birth", 0,
        LocalDataCommitmentCircuit(inputs, outputs, memo, blinding_local_data,
                                   comm_local_data)
        \o NumberGates(inputs, outputs)
        \o AllDummyGates(NonFeeFlags(inputs))
        \o PadGate(PAD_GATES))

\* the caller has chosen the notes to spend, the records to create and the
\* memo of the transaction
DexInit ==
    /\ pc = "dex"
    /\ \E n \in 2 .. DexMaxInputs :
       \E in_kinds \in [2 .. n -> NonFeeKinds], out_kinds \in [2 .. n -> NonFeeKinds],
          memo \in [1 .. DexMemoLen -> {0, 1}] :
          \E inputs \in {NoteInputs([k \in 1 .. n |->
                            InputRecord(k - 1, IF k = 1 THEN "native" ELSE in_kinds[k],
                                        MaxAmount)])} :
             /\ witness =
                  [entire_inputs |-> inputs,
                   entire_output_records_openings |->
                      [j \in 1 .. n |->
                          OutputRecord(j - 1, IF j = 1 THEN "native" ELSE out_kinds[j], 0,
                                       Nullify(inputs[1].ro, inputs[1].proof_gen_key.nk))],
                   blinding_local_data |-> 1,
                   blinding_predicates |-> 2]
             /\ public_input = [EmptyPublicInput EXCEPT !.memo = memo]
    /\ witness_tampered = FALSE
    /\ public_tampered = FALSE
    /\ BuildIdle

\* the caller commits to the local data of the transaction
CommitLocalData ==
    /\ pc = "dex"
    /\ public_input' =
          [public_input EXCEPT !.commitment_local_data =
              Commit(CompressLocalData(witness.entire_inputs,
                                       witness.entire_output_records_openings,
                                       public_input.memo),
                     witness.blinding_local_data)]
    /\ pc' = "committed"
    /\ UNCHANGED <<witness, witness_tampered, public_tampered>>
    /\ UNCHANGED buildVars

\* the caller hands over another commitment than the one computed
TamperCommitment ==
    /\ pc = "committed"
    /\ ~public_tampered
    /\ public_input' = [public_input EXCEPT !.commitment_local_data = Bump(@)]
    /\ public_tampered' = TRUE
    /\ UNCHANGED <<pc, witness, witness_tampered>>
    /\ UNCHANGED buildVars

\* birth_predicate.finalize_for_proving(.., true) with the circuit of
\* dex_example/mod.rs
GenBirthCircuitCore ==
    /\ pc = "committed"
    /\ circuit' = GenBirthCircuitCoreGates(witness.entire_inputs,
                                           witness.entire_output_records_openings,
                                           public_input.memo,
                                           witness.blinding_local_data,
                                           public_input.commitment_local_data)
    /\ variables' = BirthVariables(witness.entire_inputs,
                                   witness.entire_output_records_openings,
                                   public_input.memo)
    /\ result' = "Ok"
    /\ pc' = "birth"
    /\ UNCHANGED <<witness, public_input, witness_tampered, public_tampered, locals>>

\* birth_predicate.finalize_for_proving(.., true) with the circuit of
\* dex_example.rs
GenBirthCircuitCoreMintOnly ==
    /\ pc = "committed"
    /\ circuit' = GenBirthCircuitCoreMintOnlyGates(witness.entire_inputs,
                                                   witness.entire_output_records_openings,
                                                   public_input.memo,
                                                   witness.blinding_local_data,
                                                   public_input.commitment_local_data)
    /\ variables' = BirthVariables(witness.entire_inputs,
                                   witness.entire_output_records_openings,
                                   public_input.memo)
    /\ result' = "Ok"
    /\ pc' = "birth_mint_only"
    /\ UNCHANGED <<witness, public_input, witness_tampered, public_tampered, locals>>

\* prove and verify: the transaction is accepted when the birth circuit is
\* satisfied
ProveBirth ==
    /\ pc \in {"birth", "birth_mint_only"}
    /\ result' = IF Satisfied(circuit) THEN "satisfied" ELSE "unsatisfied"
    /\ pc' = IF pc = "birth" THEN "birth_proved" ELSE "birth_mint_only_proved"
    /\ UNCHANGED <<witness, public_input, witness_tampered, public_tampered,
                   circuit, variables, locals>>

\* NoteInput::dummy(&ProofGenerationKey::default())
NoteInputDummy ==
    [ro |-> DummyRecordOpening,
     acc_member_witness |-> DummyAccMemberWitness,
     proof_gen_key |-> [ak |-> 0, nk |-> 0],
     authorization_randomizer |-> 0,
     diversifier_randomizer |-> 0]

\* DexPredicateCircuit::preprocessed_birth_circuit of dex_example/mod.rs:
\* dummy notes, as many dummy records, a zero memo, zero blinding and commitment
PreprocessedBirthCircuit(entire_input_size) ==
    GenBirthCircuitCoreGates([k \in 1 .. entire_input_size |-> NoteInputDummy],
                             [j \in 1 .. entire_input_size |-> DummyRecordOpening],
                             [m \in 1 .. DexMemoLen |-> 0], 0, 0)

\* PlonkCircuit::num_gates
NumGates(c) == Len(c)

\* gen_death_circuit_core before the padding: the local data is the one
\* committed to
DeathCircuitUnpadded(inputs, outputs, memo, blinding_local_data, comm_local_data) ==
    Emitted("death", 0,
        LocalDataCommitmentCircuit(inputs, outputs, memo, blinding_local_data,
                                   comm_local_data))

\* a padding of the death circuit by the constant of the birth circuit
DeathPadCountConstant(target_gate_count, current_gate_count) == PAD_GATES

\* gen_death_circuit_core: target_gate_count - current_gate_count
DeathPadCount(target_gate_count, current_gate_count) ==
    target_gate_count - current_gate_count

\* death_predicate.finalize_for_proving(.., false) with the circuit of
\* dex_example/mod.rs; a subtraction of usize below zero aborts the call or
\* wraps around, as the build has it
GenDeathCircuitCore ==
    /\ pc = "committed"
    /\ \E death \in {DeathCircuitUnpadded(witness.entire_inputs,
                                           witness.entire_output_records_openings,
                                           public_input.memo,
                                           witness.blinding_local_data,
                                           public_input.commitment_local_data)},
          target_gate_count \in
              {NumGates(PreprocessedBirthCircuit(Len(witness.entire_inputs)))} :
          IF target_gate_count >= NumGates(death)
          THEN /\ circuit' = death
                     \o Emitted("death", 0,
                                PadGate(DeathPadCount(target_gate_count, NumGates(death))))
               /\ result' = "Ok"
               /\ pc' = "death"
          ELSE /\ circuit' = <<>>
               /\ result' \in {"abort", "wrapped"}
               /\ pc' = "death_underflow"
    /\ variables' = BirthVariables(witness.entire_inputs,
                                   witness.entire_output_records_openings,
                                   public_input.memo)
    /\ UNCHANGED <<witness, public_input, witness_tampered, public_tampered, locals>>

DexNext ==
    \/ CommitLocalData
    \/ TamperCommitment
    \/ GenBirthCircuitCore
    \/ GenBirthCircuitCoreMintOnly
    \/ GenDeathCircuitCore
    \/ ProveBirth

DexSpec == DexInit /\ [][DexNext]_vars

(* ---------------- what build was called with ---------------- *)

NumInputs == Len(witness.entire_inputs)

NumOutputs == Len(witness.entire_output_records_openings)

InputRo(k) == witness.entire_inputs[k].ro

OutputRo(j) == witness.entire_output_records_openings[j]

IsDummy(ro) == ro.payload.is_dummy = 1

AssetType(ro) == ro.payload.data[1]

Amount(ro) == ro.payload.data[2]

\* the root recomputed from (uid, derived record commitment, path) of input k
ExpectedRoot(k) ==
    ComputeMerkleRoot(witness.entire_inputs[k].acc_member_witness.uid,
                      DeriveRecordCommitment(InputRo(k)),
                      witness.entire_inputs[k].acc_member_witness.merkle_path)

\* Nullify(record opening k, nk_k)
ExpectedNullifier(k) == Nullify(InputRo(k), witness.entire_inputs[k].proof_gen_key.nk)

\* the diversified address recomputed from the key and the randomizer of input k
ExpectedAddress(k) ==
    DeriveDiversifier(witness.entire_inputs[k].proof_gen_key,
                      witness.entire_inputs[k].diversifier_randomizer)

\* H(j, nullifiers[0], 1) for the output at position j - 1 (counted from 0)
ExpectedNonce(j) ==
    RescueSponge(<<FromU64(j - 1), public_input.input_nullifiers[1], 1>>)

\* in0.amount - out0.amount in F
ExpectedFee == FSub(Amount(InputRo(1)), Amount(OutputRo(1)))

\* the sum over all inputs of ak + rho_auth, from the neutral point
ExpectedAuthKey ==
    SumPoints([k \in 1 .. NumInputs |->
        EccAdd(witness.entire_inputs[k].proof_gen_key.ak,
               witness.entire_inputs[k].authorization_randomizer)])

\* Com(RC_in || RC_out || memo, blinding_local_data)
ExpectedLocalDataCommitment ==
    Commit([k \in 1 .. NumInputs |-> DeriveRecordCommitment(InputRo(k))]
           \o public_input.output_commitments
           \o public_input.memo,
           witness.blinding_local_data)

\* Com(pid_death of the non-fee inputs || pid_birth of the non-fee outputs,
\* blinding_predicates)
ExpectedPredicatesCommitment ==
    Commit([k \in 1 .. NumInputs - 1 |-> InputRo(k + 1).pid_death]
           \o [j \in 1 .. NumOutputs - 1 |-> OutputRo(j + 1).pid_birth],
           witness.blinding_predicates)

\* invariants 1 to 9 of the data model
\* the dummy flag of every record is the boolean of the data model
FlagsAreBoolean ==
    /\ \A k \in 1 .. NumInputs : InputRo(k).payload.is_dummy \in {0, 1}
    /\ \A j \in 1 .. NumOutputs : OutputRo(j).payload.is_dummy \in {0, 1}

ValidTransaction ==
    /\ FlagsAreBoolean
    /\ NumInputs >= 1
    /\ NumOutputs = NumInputs
    /\ Len(public_input.input_nullifiers) = NumInputs
    /\ Len(public_input.output_commitments) = NumOutputs
    /\ ~IsDummy(InputRo(1)) /\ AssetType(InputRo(1)) = NATIVE_ASSET_CODE
    /\ ~IsDummy(OutputRo(1)) /\ AssetType(OutputRo(1)) = NATIVE_ASSET_CODE
    /\ FromU64(public_input.fee) = ExpectedFee
    /\ \A k \in 1 .. NumInputs :
          IsDummy(InputRo(k))
          \/ /\ ExpectedRoot(k) = public_input.root
             /\ ExpectedNullifier(k) = public_input.input_nullifiers[k]
             /\ ExpectedAddress(k) = InputRo(k).addr
    /\ \A j \in 1 .. NumOutputs :
          IsDummy(OutputRo(j))
          \/ /\ OutputRo(j).nonce = ExpectedNonce(j)
             /\ DeriveRecordCommitment(OutputRo(j)) = public_input.output_commitments[j]
    /\ public_input.commitment_local_data = ExpectedLocalDataCommitment
    /\ public_input.commitment_predicates = ExpectedPredicatesCommitment
    /\ public_input.authorization_verification_key = ExpectedAuthKey

(* ---------------- reading the built circuit ---------------- *)

GatesAt(block, index, name) ==
    {g \in 1 .. Len(circuit) :
        /\ circuit[g].block = block
        /\ circuit[g].index = index
        /\ circuit[g].name = name}

\* the gate was emitted and holds
GateOk(block, index, name) ==
    /\ \E g \in 1 .. Len(circuit) :
          /\ circuit[g].block = block
          /\ circuit[g].index = index
          /\ circuit[g].name = name
    /\ \A g \in 1 .. Len(circuit) :
          ( /\ circuit[g].block = block
            /\ circuit[g].index = index
            /\ circuit[g].name = name ) => circuit[g].ok

\* every gate emitted for one record holds
BlockOk(block, index) ==
    \A g \in 1 .. Len(circuit) :
        (circuit[g].block = block /\ circuit[g].index = index) => circuit[g].ok

\* every gate outside a block holds
OthersOk(block) ==
    \A g \in 1 .. Len(circuit) : circuit[g].block # block => circuit[g].ok

\* the gate is the one gate of the circuit that fails
OnlyFailing(block, index, name) ==
    /\ GatesAt(block, index, name) # {}
    /\ \A g \in 1 .. Len(circuit) :
          circuit[g].ok <=> g \notin GatesAt(block, index, name)

Checked == pc = "checked"

IsSatisfied == pc = "checked" /\ result = "satisfied"

(* ---------------- properties ---------------- *)

\* C1 (completeness): a transaction that satisfies invariants 1 to 9 of the
\* data model yields a circuit that its public input satisfies.
C1_Completeness == (Checked /\ ValidTransaction) => result = "satisfied"

C1_Witness ==
    /\ Checked /\ ValidTransaction /\ result = "satisfied"
    /\ \E k \in 2 .. NumInputs : IsDummy(InputRo(k))
    /\ \E j \in 2 .. NumOutputs : ~IsDummy(OutputRo(j))

\* C2 (fee-input hardness): no circuit whose input 0 is dummy, or holds
\* another asset than the native one, is satisfied, whatever the other values.
C2_FeeInputHardness ==
    IsSatisfied =>
        /\ InputRo(1).payload.is_dummy = 0
        /\ AssetType(InputRo(1)) = NATIVE_ASSET_CODE

C2_Witness ==
    /\ Checked /\ result = "unsatisfied"
    /\ InputRo(1).payload.is_dummy = 1
    /\ AssetType(InputRo(1)) = NATIVE_ASSET_CODE
    /\ OnlyFailing("spend", 0, "fee_not_dummy")

\* a native output that is not dummy and has the nonce of its position and
\* the advertised commitment
NativeOutputInOrder(j) ==
    /\ OutputRo(j).payload.is_dummy = 0
    /\ AssetType(OutputRo(j)) = NATIVE_ASSET_CODE
    /\ OutputRo(j).nonce = ExpectedNonce(j)
    /\ DeriveRecordCommitment(OutputRo(j)) = public_input.output_commitments[j]

\* C3 (fee-change hardness): no circuit whose output 0 is dummy, or holds
\* another asset than the native one, is satisfied; a native output in order
\* passes the output constraints at the fee-change position and at any other.
C3_FeeChangeHardness ==
    /\ IsSatisfied =>
          /\ OutputRo(1).payload.is_dummy = 0
          /\ AssetType(OutputRo(1)) = NATIVE_ASSET_CODE
    /\ Checked =>
          \A j \in 1 .. NumOutputs :
              NativeOutputInOrder(j) => BlockOk("output", j - 1)

C3_Witness ==
    /\ Checked /\ result = "unsatisfied"
    /\ OutputRo(1).payload.is_dummy = 1
    /\ AssetType(OutputRo(1)) = NATIVE_ASSET_CODE
    /\ OnlyFailing("output", 0, "fee_chg_not_dummy")

\* C4 (fee arithmetic): with every other gate holding, the circuit is
\* satisfied exactly when the public fee is in0.amount - out0.amount in F.
C4_FeeArithmetic ==
    (Checked /\ OthersOk("fee")) =>
        (result = "satisfied" <=> FromU64(public_input.fee) = ExpectedFee)

C4_Witness ==
    /\ Checked /\ OthersOk("fee") /\ result = "unsatisfied"
    /\ FromU64(public_input.fee) = FAdd(ExpectedFee, 1)

\* C5 (authorization-key aggregation): with every other gate holding, the
\* circuit is satisfied exactly when the public key is the sum over all
\* inputs, dummy ones included, of ak + rho_auth.
C5_AuthKeyAggregation ==
    (Checked /\ OthersOk("auth_key")) =>
        (result = "satisfied"
            <=> public_input.authorization_verification_key = ExpectedAuthKey)

C5_Witness ==
    /\ Checked /\ OthersOk("auth_key") /\ result = "satisfied"
    /\ \E k \in 2 .. NumInputs :
          /\ IsDummy(InputRo(k))
          /\ EccAdd(witness.entire_inputs[k].proof_gen_key.ak,
                    witness.entire_inputs[k].authorization_randomizer) # NeutralPoint
    /\ \E k \in 1 .. NumInputs :
          witness.entire_inputs[k].authorization_randomizer # 0

\* C6 (membership binding): a satisfied circuit has every input that is not
\* dummy recompute the public root; the spend constraints of a dummy input
\* after the fee slot hold whatever the root.
C6_MembershipBinding ==
    /\ IsSatisfied =>
          \A k \in 1 .. NumInputs :
              InputRo(k).payload.is_dummy = 0 => ExpectedRoot(k) = public_input.root
    /\ Checked =>
          \A k \in 2 .. NumInputs :
              InputRo(k).payload.is_dummy = 1 => BlockOk("spend", k - 1)

C6_Witness ==
    /\ Checked /\ result = "unsatisfied"
    /\ \E k \in 2 .. NumInputs :
          /\ InputRo(k).payload.is_dummy = 0
          /\ ExpectedRoot(k) # public_input.root
          /\ OnlyFailing("spend", k - 1, "membership")

\* C7 (nullifier binding): a satisfied circuit has the public nullifier of
\* every input that is not dummy equal to Nullify(record opening, nk).
C7_NullifierBinding ==
    IsSatisfied =>
        \A k \in 1 .. NumInputs :
            InputRo(k).payload.is_dummy = 0 =>
                public_input.input_nullifiers[k] = ExpectedNullifier(k)

C7_Witness ==
    /\ Checked /\ result = "unsatisfied"
    /\ \E k \in 2 .. NumInputs :
          /\ InputRo(k).payload.is_dummy = 0
          /\ public_input.input_nullifiers[k] # ExpectedNullifier(k)
          /\ OnlyFailing("spend", k - 1, "nullifier")

\* C8 (output-nonce binding): a satisfied circuit has every output after the
\* fee change that is not dummy carry the nonce H(j, first nullifier, 1) of
\* its position j; the nonce gate of a dummy output holds whatever its nonce.
C8_OutputNonceBinding ==
    /\ IsSatisfied =>
          \A j \in 2 .. NumOutputs :
              OutputRo(j).payload.is_dummy = 0 => OutputRo(j).nonce = ExpectedNonce(j)
    /\ Checked =>
          \A j \in 2 .. NumOutputs :
              OutputRo(j).payload.is_dummy # 0 => GateOk("output", j - 1, "nonce")

C8_Witness ==
    /\ Checked /\ result = "unsatisfied"
    /\ \E j \in 2 .. NumOutputs :
          /\ OutputRo(j).payload.is_dummy = 0
          /\ OutputRo(j).nonce # ExpectedNonce(j)
          /\ OnlyFailing("output", j - 1, "nonce")

\* C9 (local-data binding): the local-data gate holds exactly when the public
\* commitment is Com(input commitments, output commitments, memo) under
\* blinding_local_data, the fee being no part of the message; no circuit with
\* another public commitment is satisfied.
C9_LocalDataBinding ==
    Checked =>
        /\ GateOk("local_data", 0, "equal")
              <=> public_input.commitment_local_data = ExpectedLocalDataCommitment
        /\ result = "satisfied"
              => public_input.commitment_local_data = ExpectedLocalDataCommitment

C9_Witness ==
    /\ Checked /\ result = "unsatisfied"
    /\ NumInputs >= 2
    /\ public_input.commitment_local_data # ExpectedLocalDataCommitment
    /\ OnlyFailing("local_data", 0, "equal")

\* C10 (predicate binding): the predicates gate holds exactly when the public
\* commitment is Com(pid_death of inputs 1.., pid_birth of outputs 1..) under
\* blinding_predicates, whatever pid_death of input 0 and pid_birth of output
\* 0 are; no circuit with another public commitment is satisfied.
C10_PredicateBinding ==
    Checked =>
        /\ GateOk("predicates", 0, "equal")
              <=> public_input.commitment_predicates = ExpectedPredicatesCommitment
        /\ result = "satisfied"
              => public_input.commitment_predicates = ExpectedPredicatesCommitment

C10_Witness ==
    /\ Checked /\ result = "satisfied"
    /\ NumInputs >= 2
    /\ OutputRo(1).pid_birth # 0
    /\ public_input.commitment_predicates = ExpectedPredicatesCommitment

(* ---------------- the shape of the circuit ---------------- *)

\* the gates of a circuit without the values assigned to them
Shape(c) == [g \in 1 .. Len(c) |-> <<c[g].block, c[g].index, c[g].name>>]

\* the length of the public-input vector of a circuit
NumPublic(vs) == Len(SelectSeq(vs, LAMBDA v : v.kind = "public"))

\* the preprocessing circuit of every number of non-fee notes
PreprocessingCircuits == [k \in 0 .. MaxN - 1 |-> BuildForPreprocessingValue(k)]

\* C11 (shape stability): the circuit built for a witness and a public input
\* with n inputs, n outputs and a memo of MemoLen elements has as many gates
\* and as many public inputs as the preprocessing circuit for n - 1 non-fee
\* notes, and the same gates in the same places, whatever the values are.
C11_ShapeStability ==
    (/\ pc \in {"built", "checked"}
     /\ NumOutputs = NumInputs
     /\ Len(public_input.memo) = MemoLen)
    => LET pre == PreprocessingCircuits[NumInputs - 1]
       IN /\ Len(circuit) = Len(pre.gates)
          /\ NumPublic(variables) = NumPublic(pre.variables)
          /\ Shape(circuit) = Shape(pre.gates)

\* a built circuit for two notes, the second one real, whose second output
\* is dummy: no record but one has the values of the dummy witness
C11_Witness ==
    /\ pc = "built"
    /\ NumInputs = 2
    /\ NumOutputs = 2
    /\ ~IsDummy(InputRo(2))
    /\ IsDummy(OutputRo(2))
    /\ Len(circuit) = Len(PreprocessingCircuits[1].gates)
    /\ Len(circuit) > 0

(* ---------------- the order of the variables ---------------- *)

\* the public variables of a circuit, in the order of their allocation
IsPublicVar(v) == v.kind = "public"

PublicVars(vs) == SelectSeq(vs, IsPublicVar)

\* the variables allocated before the first public one
RECURSIVE BeforePublic(_)
BeforePublic(vs) ==
    IF vs = <<>> \/ IsPublicVar(Head(vs)) THEN <<>>
    ELSE <<Head(vs)>> \o BeforePublic(Tail(vs))

\* the elements of a sequence
Range(seq) == {seq[i] : i \in 1 .. Len(seq)}

\* a circuit has been built from the witness and the public input at hand
Allocated == pc \in {"built", "checked"} \/ (pc = "preprocessed" /\ result = "Ok")

\* the public variables pubs are those of n nullifiers, m output commitments
\* and l memo elements in the order of the public-input vector
InPublicInputOrder(pubs, n, m, l) ==
    /\ Len(pubs) = n + m + 4 + l + 2
    /\ \A r \in 1 .. n : pubs[r].name = "nullifier" /\ pubs[r].index = r - 1
    /\ \A r \in 1 .. m :
        pubs[n + r].name = "output_commitment" /\ pubs[n + r].index = r - 1
    /\ pubs[n + m + 1].name = "predicates_commitment"
    /\ pubs[n + m + 2].name = "local_data_commitment"
    /\ pubs[n + m + 3].name = "root"
    /\ pubs[n + m + 4].name = "fee"
    /\ \A r \in 1 .. l :
        pubs[n + m + 4 + r].name = "memo" /\ pubs[n + m + 4 + r].index = r - 1
    /\ pubs[n + m + 4 + l + 1].name = "authorization_verification_key.x"
    /\ pubs[n + m + 4 + l + 2].name = "authorization_verification_key.y"

\* the variables of ni inputs and no outputs are all among early
WitnessVarsAmong(early, ni, no) ==
    /\ \A k \in 1 .. ni : Var("witness", "input", k - 1) \in early
    /\ \A j \in 1 .. no : Var("witness", "output", j - 1) \in early

\* C12 (public-input order): the public variables of a built circuit are the
\* nullifiers in input order, the output commitments in output order, the
\* predicates commitment, the local-data commitment, the root, the fee, the
\* memo elements and the two coordinates of the authorization verification
\* key; every witness variable of an input or an output comes before the
\* first public variable.
C12_PublicInputOrder ==
    Allocated =>
        /\ InPublicInputOrder(PublicVars(variables),
                              Len(public_input.input_nullifiers),
                              Len(public_input.output_commitments),
                              Len(public_input.memo))
        /\ WitnessVarsAmong(Range(BeforePublic(variables)), NumInputs, NumOutputs)

\* a circuit built for two inputs and two outputs with a memo
C12_Witness ==
    /\ pc = "built"
    /\ NumInputs = 2
    /\ NumOutputs = 2
    /\ Len(public_input.memo) = MemoLen
    /\ NumPublic(variables) = 2 + 2 + 4 + MemoLen + 2
    /\ PublicVars(variables)[1].name = "nullifier"

(* ---------------- what build reports ---------------- *)

C14_PreprocessingErrorWrapping ==
    (pc = "preprocessed" /\ result # "Ok") => result = "InternalError"

(* ---------------- the dummy flag as a field element ---------------- *)

\* C15 (booleanity of the dummy flag): in a satisfied circuit the dummy flag
\* of every input record opening and of every output record opening is 0 or 1.
C15_DummyFlagBooleanity ==
    IsSatisfied =>
        /\ \A k \in 1 .. NumInputs : InputRo(k).payload.is_dummy \in {0, 1}
        /\ \A j \in 1 .. NumOutputs : OutputRo(j).payload.is_dummy \in {0, 1}

(* ---------------- building twice ---------------- *)

BirthProved == pc = "birth_proved"

BirthMintOnlyProved == pc = "birth_mint_only_proved"

MintSelected == public_input.memo[MintIndex] = 1

ConserveSelected == public_input.memo[ConserveIndex] = 1

\* the notes after the fee note that are not dummy, and the records
NonDummyNonFeeInputs == {k \in 2 .. NumInputs : InputRo(k).payload.is_dummy = 0}

NonDummyNonFeeOutputs == {j \in 2 .. NumOutputs : OutputRo(j).payload.is_dummy = 0}

\* C17 (DEX birth predicate, mint mode): when memo[0] = 1 the birth circuit,
\* of either file, is satisfied only if every note after the fee note is
\* dummy; with one such note not dummy the transaction is rejected.
C17_MintInputsDummy ==
    ((BirthProved \/ BirthMintOnlyProved) /\ MintSelected)
    => /\ result = "satisfied" => NonDummyNonFeeInputs = {}
       /\ NonDummyNonFeeInputs # {} => result = "unsatisfied"

\* mint mode, two notes after the fee note of which one is not dummy, the
\* commitment honest: the mint gate alone fails and the transaction is rejected
C17_Witness ==
    /\ BirthProved /\ MintSelected /\ ~ConserveSelected
    /\ NumInputs = ExpectedNotes
    /\ ~public_tampered
    /\ Cardinality(NonDummyNonFeeInputs) = 1
    /\ result = "unsatisfied"
    /\ OnlyFailing("birth", 0, "mint")

\* C18 (DEX birth predicate, conserve mode): when memo[1] = 1 the birth
\* circuit of dex_example/mod.rs is satisfied only if no note after the fee
\* note is dummy; with one dummy the transaction is rejected, with none, two
\* notes and the conserve memo, it is accepted.
C18_ConserveInputsNonDummy ==
    (BirthProved /\ ConserveSelected)
    => /\ result = "satisfied" => NonDummyNonFeeInputs = 2 .. NumInputs
       /\ NonDummyNonFeeInputs # 2 .. NumInputs => result = "unsatisfied"
       /\ (/\ NonDummyNonFeeInputs = 2 .. NumInputs
           /\ NumInputs = ExpectedNotes
           /\ ~MintSelected
           /\ ~public_tampered) => result = "satisfied"

\* conserve mode with two notes after the fee note, none dummy: accepted
C18_Witness ==
    /\ BirthProved /\ ConserveSelected /\ ~MintSelected
    /\ NumInputs = ExpectedNotes
    /\ Cardinality(NonDummyNonFeeInputs) = 2
    /\ result = "satisfied"

\* C19 (DEX birth predicate, mint mode outputs): in mint mode the birth
\* circuit is satisfied only with exactly one record after the fee change
\* that is not dummy.
C19_MintOneOutput ==
    (BirthProved /\ MintSelected /\ result = "satisfied")
    => Cardinality(NonDummyNonFeeOutputs) = 1

(* ---------------- dummy notes ---------------- *)

\* C20 (dummy bypass for inputs): for an input after the fee input with
\* is_dummy = 1 the membership, nullifier and diversifier gates of prove_spend
\* hold whatever the root, the path, the public nullifier, the nullifier key,
\* the diversifier randomizer and the address; for an input with is_dummy = 0
\* each of them holds exactly when its equality does.
C20_DummyBypass ==
    Checked =>
        /\ \A k \in 2 .. NumInputs :
              InputRo(k).payload.is_dummy = 1 =>
                  /\ GateOk("spend", k - 1, "membership")
                  /\ GateOk("spend", k - 1, "nullifier")
                  /\ GateOk("spend", k - 1, "diversifier")
        /\ \A k \in 1 .. NumInputs :
              InputRo(k).payload.is_dummy = 0 =>
                  /\ GateOk("spend", k - 1, "membership")
                        <=> ExpectedRoot(k) = public_input.root
                  /\ GateOk("spend", k - 1, "nullifier")
                        <=> ExpectedNullifier(k) = public_input.input_nullifiers[k]
                  /\ GateOk("spend", k - 1, "diversifier")
                        <=> ExpectedAddress(k) = InputRo(k).addr

\* a satisfied circuit whose second input is dummy, with a root and a public
\* nullifier that are not the ones derived from it
C20_Witness ==
    /\ IsSatisfied
    /\ NumInputs = 2
    /\ InputRo(2).payload.is_dummy = 1
    /\ ExpectedRoot(2) # public_input.root
    /\ ExpectedNullifier(2) # public_input.input_nullifiers[2]

(* ---------------- bindings of the witness records ---------------- *)

\* C21 (diversifier binding): in a satisfied circuit every input with
\* is_dummy = 0, the fee input included, has as address the diversified
\* address recomputed from its proof generation key and its diversifier
\* randomizer.
C21_DiversifierBinding ==
    IsSatisfied =>
        \A k \in 1 .. NumInputs :
            InputRo(k).payload.is_dummy = 0 => InputRo(k).addr = ExpectedAddress(k)

\* the fee input carries another address than the diversified one and the
\* diversifier gate of its spend block is the one gate that fails
C21_Witness ==
    /\ Checked /\ result # "satisfied"
    /\ InputRo(1).payload.is_dummy = 0
    /\ InputRo(1).addr # ExpectedAddress(1)
    /\ OnlyFailing("spend", 0, "diversifier")

\* C22 (output-commitment binding): in a satisfied circuit every output with
\* is_dummy = 0 has its derived record commitment equal to the public output
\* commitment of its position; for an output that prove_output treats as
\* dummy the commitment gate holds whatever the public commitment.
C22_OutputCommitmentBinding ==
    /\ IsSatisfied =>
          \A j \in 1 .. NumOutputs :
              OutputRo(j).payload.is_dummy = 0 =>
                  DeriveRecordCommitment(OutputRo(j)) = public_input.output_commitments[j]
    /\ Checked =>
          \A j \in 1 .. NumOutputs :
              OutputRo(j).payload.is_dummy # 0 => GateOk("output", j - 1, "commitment")

\* a satisfied circuit whose second output is dummy and whose public
\* commitment at that position is not the one derived from the record
C22_Witness ==
    /\ IsSatisfied
    /\ NumOutputs = 2
    /\ OutputRo(1).payload.is_dummy = 0
    /\ OutputRo(2).payload.is_dummy = 1
    /\ DeriveRecordCommitment(OutputRo(2)) # public_input.output_commitments[2]

(* ---------------- the fee slots ---------------- *)

\* a gate of that name was emitted for the record
Emits(block, index, name) ==
    \E g \in 1 .. Len(circuit) :
        /\ circuit[g].block = block
        /\ circuit[g].index = index
        /\ circuit[g].name = name

\* the names of the gates of the two fee slots
FeeSlotNames == {"fee_not_dummy", "fee_native", "fee_chg_not_dummy", "fee_chg_native"}

\* C23 (fee-slot gates at index 0 only): the not-dummy and native-asset gates
\* are emitted for input 0 and for output 0 and for no later record; a dummy
\* record at a later position has every gate of its block hold, and so has a
\* non-dummy record there whose bindings hold, whatever its asset type.
C23_FeeSlotOnly ==
    Checked =>
        /\ Emits("spend", 0, "fee_not_dummy") /\ Emits("spend", 0, "fee_native")
        /\ Emits("output", 0, "fee_chg_not_dummy") /\ Emits("output", 0, "fee_chg_native")
        /\ \A g \in 1 .. Len(circuit) :
              circuit[g].name \in FeeSlotNames => circuit[g].index = 0
        /\ \A k \in 2 .. NumInputs :
              /\ InputRo(k).payload.is_dummy = 1 => BlockOk("spend", k - 1)
              /\ ( /\ InputRo(k).payload.is_dummy = 0
                   /\ ExpectedRoot(k) = public_input.root
                   /\ ExpectedNullifier(k) = public_input.input_nullifiers[k]
                   /\ ExpectedAddress(k) = InputRo(k).addr )
                 => BlockOk("spend", k - 1)
        /\ \A j \in 2 .. NumOutputs :
              /\ OutputRo(j).payload.is_dummy = 1 => BlockOk("output", j - 1)
              /\ ( /\ OutputRo(j).payload.is_dummy = 0
                   /\ OutputRo(j).nonce = ExpectedNonce(j)
                   /\ DeriveRecordCommitment(OutputRo(j)) = public_input.output_commitments[j] )
                 => BlockOk("output", j - 1)

\* a satisfied circuit whose second input is neither dummy nor native and
\* whose second output is dummy
C23_Witness ==
    /\ IsSatisfied
    /\ NumInputs = 2
    /\ ~IsDummy(InputRo(2)) /\ AssetType(InputRo(2)) # NATIVE_ASSET_CODE
    /\ IsDummy(OutputRo(2))

\* C24 (no range check on the amounts): the fee gate holds exactly when the
\* public fee is the difference of the two fee-slot amounts modulo the order
\* of the field, and a transaction meeting the data-model invariants whose
\* fee-change amount is larger than its fee-input amount is satisfied.
C24_NoRangeCheck ==
    /\ Checked =>
          ( GateOk("fee", 0, "equal")
            <=> FromU64(public_input.fee)
                    = (Amount(InputRo(1)) - Amount(OutputRo(1))) % P )
    /\ (Checked /\ Amount(OutputRo(1)) > Amount(InputRo(1)) /\ ValidTransaction)
          => result = "satisfied"

\* a satisfied circuit whose fee change holds more than its fee input
C24_Witness ==
    /\ IsSatisfied
    /\ Amount(OutputRo(1)) > Amount(InputRo(1))
    /\ FromU64(public_input.fee) = P + Amount(InputRo(1)) - Amount(OutputRo(1))

(* ---------------- one call of build, step by step ---------------- *)

\* the witness and the public input as build has allocated them
WitnessVar == DPCUtxoWitnessVarNew(witness)

PublicInputVar == DPCUtxoPubInputVarNew(public_input)

\* the number of turns of the two loops of build: zip stops at the shorter list
SpendTurns == Min(Len(WitnessVar.inputs), Len(PublicInputVar.nullifiers))

OutputTurns ==
    Min(Len(WitnessVar.output_records_openings), Len(PublicInputVar.output_commitments))

\* the caller hands build a witness with one record less at the end of the
\* inputs or of the outputs
DropWitnessRecord ==
    /\ pc = "public"
    /\ \/ /\ witness.entire_inputs # <<>>
          /\ witness' = [witness EXCEPT !.entire_inputs =
                            SubSeq(@, 1, Len(@) - 1)]
       \/ /\ witness.entire_output_records_openings # <<>>
          /\ witness' = [witness EXCEPT !.entire_output_records_openings =
                            SubSeq(@, 1, Len(@) - 1)]
    /\ UNCHANGED <<pc, public_input, witness_tampered, public_tampered>>
    /\ UNCHANGED buildVars

\* the caller hands build a public input with one value less at the end of
\* the nullifiers or of the output commitments
DropPublicValue ==
    /\ pc = "public"
    /\ \/ /\ public_input.input_nullifiers # <<>>
          /\ public_input' = [public_input EXCEPT !.input_nullifiers =
                                SubSeq(@, 1, Len(@) - 1)]
       \/ /\ public_input.output_commitments # <<>>
          /\ public_input' = [public_input EXCEPT !.output_commitments =
                                SubSeq(@, 1, Len(@) - 1)]
    /\ UNCHANGED <<pc, witness, witness_tampered, public_tampered>>
    /\ UNCHANGED buildVars

\* build: a new circuit, the witness and the public input are allocated, the
\* locals are declared and the constant of the native asset is created
BuildBegin ==
    /\ pc = "public"
    /\ circuit' = PlonkCircuitDefault([gates |-> circuit, variables |-> variables]).gates
    /\ variables' = WitnessVarAllocations(witness)
                        \o PubInputVarAllocations(public_input)
                        \o <<Var("constant", "native_asset_type", 0)>>
    /\ locals' = BuildLocals
    /\ pc' = "check_input"
    /\ UNCHANGED <<witness, public_input, witness_tampered, public_tampered, result>>

\* build: one turn of the loop over the inputs zipped with the nullifiers
SpendTurn ==
    /\ pc = "check_input"
    /\ locals.turn < SpendTurns
    /\ \E spend \in {ProveSpend(WitnessVar.inputs[locals.turn + 1],
                                PublicInputVar.nullifiers[locals.turn + 1],
                                PublicInputVar.root, locals.is_fee_ro,
                                NATIVE_ASSET_CODE)} :
          /\ circuit' = circuit \o Emitted("spend", locals.turn, spend.gates)
          /\ locals' = [locals EXCEPT
                            !.is_fee_ro = FALSE,
                            !.compressed_local_data = Append(@, spend.record_commitment),
                            !.derived_authorization_key = EccAdd(@, spend.rand_auth_key),
                            !.turn = @ + 1]
    /\ UNCHANGED <<pc, witness, public_input, witness_tampered, public_tampered,
                   variables, result>>

\* build: after the loop, the aggregated randomized verification key is compared
CompareAuthKey ==
    /\ pc = "check_input"
    /\ locals.turn >= SpendTurns
    /\ circuit' = circuit \o Emitted("auth_key", 0,
            <<Gate("point_equal",
                   PointEqualGateOk(PublicInputVar.authorization_verification_key,
                                    locals.derived_authorization_key))>>)
    /\ locals' = [locals EXCEPT !.turn = 0]
    /\ pc' = "check_output"
    /\ UNCHANGED <<witness, public_input, witness_tampered, public_tampered,
                   variables, result>>

\* an index past the end of a vector handed to the caller as an error
IndexOutOfBoundsAsError == "PlonkError"

\* Index::index of a vector, past its end: the thread panics
IndexOutOfBounds == "abort"

\* build: one turn of the loop over the outputs zipped with the commitments;
\* the argument public_input_var.nullifiers[0] is read before prove_output is
\* entered, and a read past the end of a vector aborts the call
OutputTurn ==
    /\ pc = "check_output"
    /\ locals.turn < OutputTurns
    /\ IF PublicInputVar.nullifiers = <<>>
       THEN /\ pc' = "aborted"
            /\ result' = IndexOutOfBounds
            /\ UNCHANGED <<circuit, variables, locals>>
       ELSE /\ circuit' = circuit \o Emitted("output", locals.turn,
                    ProveOutput(WitnessVar.output_records_openings[locals.turn + 1],
                                PublicInputVar.output_commitments[locals.turn + 1],
                                locals.is_fee_chg_ro, NATIVE_ASSET_CODE, locals.turn,
                                PublicInputVar.nullifiers[1]))
            /\ variables' = Append(variables,
                                   Var("witness", "position_in_note", locals.turn))
            /\ locals' = [locals EXCEPT
                            !.is_fee_chg_ro = FALSE,
                            !.compressed_local_data =
                                Append(@, PublicInputVar.output_commitments[locals.turn + 1]),
                            !.turn = @ + 1]
            /\ UNCHANGED <<pc, result>>
    /\ UNCHANGED <<witness, public_input, witness_tampered, public_tampered>>

\* build: after the loop, the fee is compared with the difference of the
\* amounts of inputs[0] and output_records_openings[0]
CompareFee ==
    /\ pc = "check_output"
    /\ locals.turn >= OutputTurns
    /\ IF WitnessVar.inputs = <<>> \/ WitnessVar.output_records_openings = <<>>
       THEN /\ pc' = "aborted"
            /\ result' = IndexOutOfBounds
            /\ UNCHANGED circuit
       ELSE /\ circuit' = circuit \o Emitted("fee", 0,
                    <<Gate("equal",
                           EqualGateOk(
                               FeeDiff(WitnessVar.inputs[1].record_opening_var.payload.data[2],
                                       WitnessVar.output_records_openings[1].payload.data[2]),
                               PublicInputVar.fee))>>)
            /\ pc' = "check_commitments"
            /\ UNCHANGED result
    /\ UNCHANGED <<witness, public_input, witness_tampered, public_tampered,
                   variables, locals>>

\* build: the commitment to the local data, then the one to the predicates
CompareCommitments ==
    /\ pc = "check_commitments"
    /\ circuit' = BuildCheckCommitments(
                      [circuit |-> circuit,
                       compressed_local_data |-> locals.compressed_local_data],
                      WitnessVar, PublicInputVar)
    /\ pc' = "finalize"
    /\ UNCHANGED <<witness, public_input, witness_tampered, public_tampered,
                   variables, result, locals>>

\* build: circuit.finalize_for_arithmetization()?; Ok(DPCUtxoCircuit(circuit))
Finalize ==
    /\ pc = "finalize"
    /\ result' = FinalizeForArithmetization(circuit)
    /\ pc' = "built"
    /\ UNCHANGED <<witness, public_input, witness_tampered, public_tampered,
                   circuit, variables, locals>>

\* build: a gadget call returns a PlonkError and the question mark hands it
\* to the caller
StepFails ==
    /\ pc \in {"check_input", "check_output", "check_commitments", "finalize"}
    /\ result' = "PlonkError"
    /\ pc' = "failed"
    /\ UNCHANGED <<witness, public_input, witness_tampered, public_tampered,
                   circuit, variables, locals>>

StepNext ==
    \/ MakeOutputs
    \/ FromWitness
    \/ DropWitnessRecord
    \/ DropPublicValue
    \/ BuildBegin
    \/ SpendTurn
    \/ CompareAuthKey
    \/ OutputTurn
    \/ CompareFee
    \/ CompareCommitments
    \/ Finalize
    \/ StepFails
    \/ CheckCircuitSatisfiability

StepSpec == Init /\ [][StepNext]_vars

\* the witness and the public lists of the call have the same length n
SameLengths(n) ==
    /\ Len(witness.entire_inputs) = n
    /\ Len(witness.entire_output_records_openings) = n
    /\ Len(public_input.input_nullifiers) = n
    /\ Len(public_input.output_commitments) = n

(* ---------------- the order of emission ---------------- *)

IsPrefix(s, t) == Len(s) <= Len(t) /\ SubSeq(t, 1, Len(s)) = s

\* the gates of one spend block and of one output block, by name
SpendNames(i) ==
    <<"bool", "derive_record_commitment", "compute_merkle_root">>
    \o (IF i = 0 THEN <<"fee_not_dummy", "fee_native">> ELSE <<>>)
    \o <<"membership", "nullifier", "rand_auth_key", "diversifier">>

OutputNames(j) ==
    <<"nonce", "commitment">>
    \o (IF j = 0 THEN <<"fee_chg_not_dummy", "fee_chg_native">> ELSE <<>>)

BlockShape(block, index, names) ==
    [g \in 1 .. Len(names) |-> <<block, index, names[g]>>]

RECURSIVE SpendShape(_)
SpendShape(n) ==
    IF n = 0 THEN <<>>
    ELSE SpendShape(n - 1) \o BlockShape("spend", n - 1, SpendNames(n - 1))

RECURSIVE OutputShape(_)
OutputShape(n) ==
    IF n = 0 THEN <<>>
    ELSE OutputShape(n - 1) \o BlockShape("output", n - 1, OutputNames(n - 1))

\* the order of the specification for n inputs and n outputs
ExpectedShape(n) ==
    SpendShape(n)
    \o <<<<"auth_key", 0, "point_equal">>>>
    \o OutputShape(n)
    \o <<<<"fee", 0, "equal">>, <<"local_data", 0, "equal">>,
         <<"predicates", 0, "equal">>>>

\* C25 (emission order of build): over one call of build with n inputs and n
\* outputs the gates are emitted in the order spend blocks 0 .. n-1 (each one
\* booleanity, commitment, Merkle root, the fee gates at index 0, membership,
\* nullifier, key randomization, diversifier), point equality, output blocks
\* 0 .. n-1, fee, local data, predicates; a gate once emitted is never removed
\* nor rewritten; finalization is the last step of the call, runs once, on the
\* complete circuit, and never after a step that failed.
C25_EmissionOrder ==
    [][ /\ IsPrefix(circuit, circuit')
        /\ \A n \in 1 .. MaxN :
              SameLengths(n) => IsPrefix(Shape(circuit'), ExpectedShape(n))
        /\ (pc' = "built")
              => /\ pc = "finalize"
                 /\ result' = "Ok"
                 /\ circuit' = circuit
                 /\ \A n \in 1 .. MaxN :
                       SameLengths(n) => Shape(circuit) = ExpectedShape(n)
        /\ pc \notin {"failed", "aborted"}
        /\ pc = "built" => (pc' = "checked" /\ circuit' = circuit)
      ]_vars

\* build has returned the circuit of two inputs and two outputs, every block
\* in its place
C25_Witness ==
    /\ pc = "built"
    /\ result = "Ok"
    /\ SameLengths(2)
    /\ Shape(circuit) = ExpectedShape(2)
    /\ circuit = BuildGates(witness, public_input)
    /\ variables = BuildVariables(witness, public_input)

(* ---------------- the padding of the death circuit ---------------- *)

\* the gates of the circuit that are padding
PadGates(c) == Len(SelectSeq(c, LAMBDA g : g.name = "pad"))

C27_FeeChangeNonceBound ==
    /\ Checked => Emits("output", 0, "nonce")
    /\ IsSatisfied =>
          /\ OutputRo(1).payload.is_dummy = 0
          /\ OutputRo(1).nonce = RescueSponge(<<0, public_input.input_nullifiers[1], 1>>)

\* the fee change carries another nonce than the derived one and the nonce
\* gate of its block is the one gate that fails
C27_Witness ==
    /\ Checked /\ result # "satisfied"
    /\ OutputRo(1).payload.is_dummy = 0
    /\ OutputRo(1).nonce # RescueSponge(<<0, public_input.input_nullifiers[1], 1>>)
    /\ OnlyFailing("output", 0, "nonce")

\* C28 (the nonces are bound to the nullifier of the fee record): in a
\* satisfied circuit nullifiers[0] = Nullify(inputs[0], nk_0), and every
\* output j with is_dummy = 0 has nonce = H(j, Nullify(inputs[0], nk_0), 1).
C28_NonceBoundToFeeNullifier ==
    IsSatisfied =>
        /\ public_input.input_nullifiers[1] = ExpectedNullifier(1)
        /\ \A j \in 1 .. NumOutputs :
              OutputRo(j).payload.is_dummy = 0 =>
                  OutputRo(j).nonce
                      = RescueSponge(<<FromU64(j - 1), ExpectedNullifier(1), 1>>)

\* a satisfied circuit with a second output that is not dummy
C28_Witness ==
    /\ IsSatisfied
    /\ NumOutputs = 2
    /\ OutputRo(2).payload.is_dummy = 0
    /\ OutputRo(2).nonce = RescueSponge(<<1, ExpectedNullifier(1), 1>>)
    /\ OutputRo(2).nonce # RescueSponge(<<1, Bump(ExpectedNullifier(1)), 1>>)

(* ---------------- lists of other lengths ---------------- *)

\* the indices of the blocks build has emitted for the inputs, for the outputs
BlockIndices(block) ==
    {circuit[g].index : g \in {h \in 1 .. Len(circuit) : circuit[h].block = block}}

\* the four lists of the call hold one element at least
NoListEmpty ==
    /\ witness.entire_inputs # <<>>
    /\ witness.entire_output_records_openings # <<>>
    /\ public_input.input_nullifiers # <<>>
    /\ public_input.output_commitments # <<>>

LengthsDiffer ==
    \/ Len(witness.entire_inputs) # Len(public_input.input_nullifiers)
    \/ Len(witness.entire_output_records_openings) # Len(public_input.output_commitments)

\* C29 (a length mismatch is not rejected): a call of build whose lists are
\* not empty reaches its return with Ok whether or not the witness lists are
\* as long as the public ones; the spend blocks, the output blocks, the local
\* data and the aggregated key cover the first min(len) pairs and no more,
\* while the predicates gate compares the public commitment with the
\* commitment to pid_death of every input and pid_birth of every output of
\* the witness from index 1 on.
C29_LengthMismatch ==
    (pc = "built" /\ NoListEmpty) =>
        /\ result = "Ok"
        /\ BlockIndices("spend")
              = 0 .. Min(NumInputs, Len(public_input.input_nullifiers)) - 1
        /\ BlockIndices("output")
              = 0 .. Min(NumOutputs, Len(public_input.output_commitments)) - 1
        /\ locals.compressed_local_data
              = [k \in 1 .. Min(NumInputs, Len(public_input.input_nullifiers)) |->
                    DeriveRecordCommitment(InputRo(k))]
                \o SubSeq(public_input.output_commitments, 1,
                          Min(NumOutputs, Len(public_input.output_commitments)))
        /\ locals.derived_authorization_key
              = SumPoints([k \in 1 .. Min(NumInputs, Len(public_input.input_nullifiers)) |->
                    EccAdd(witness.entire_inputs[k].proof_gen_key.ak,
                           witness.entire_inputs[k].authorization_randomizer)])
        /\ GateOk("predicates", 0, "equal")
              <=> public_input.commitment_predicates
                    = Commit([k \in 1 .. NumInputs - 1 |-> InputRo(k + 1).pid_death]
                             \o [j \in 1 .. NumOutputs - 1 |-> OutputRo(j + 1).pid_birth],
                             witness.blinding_predicates)

\* build has returned Ok for two inputs and two outputs with one public
\* nullifier and one public output commitment: one spend block, one output
\* block, and a predicates gate that holds
C29_Witness ==
    /\ pc = "built" /\ result = "Ok"
    /\ NumInputs = 2 /\ NumOutputs = 2
    /\ Len(public_input.input_nullifiers) = 1
    /\ Len(public_input.output_commitments) = 1
    /\ BlockIndices("spend") = {0}
    /\ BlockIndices("output") = {0}
    /\ GateOk("predicates", 0, "equal")
    /\ InputRo(2).pid_death # 0

\* the call reads index 0 of an empty vector before it can return
EmptyFeeSlot ==
    \/ witness.entire_inputs = <<>>
    \/ witness.entire_output_records_openings = <<>>
    \/ /\ public_input.input_nullifiers = <<>>
       /\ OutputTurns > 0

====
